---- MODULE Spec2Model ----
(***************************************************************************)
(* Model of the AmneziaWG Telegram bot (bot/vpn_manager.py, bot/utils.py,  *)
(* bot/handlers.py, config/settings.py).                                   *)
(*                                                                         *)
(* A configuration file is a sequence of lines plus a flag telling whether *)
(* the text ends with a newline.  A line is a record                       *)
(*     [k |-> kind, p |-> prefix, v |-> value, m |-> mask]                 *)
(*   k : "Interface", "Peer" (section headers), "PrivateKey", "PublicKey", *)
(*       "PresharedKey" (v = the key), "AllowedIPs", "Address" (an address *)
(*       p.v/m), "Endpoint" (v = the kind of host text: 4 an IPv4 address, *)
(*       6 an IPv6 address such as 2a03:f480::d, 60 an IPv6 address whose  *)
(*       second group starts with a digit such as 2001:4860::8888, 0 the   *)
(*       text UNKNOWN_IP; p = 1 when the host is in brackets), "Jc" and    *)
(*       "Obfuscation" (the AmneziaWG parameters Jc and Jmin..H4),         *)
(*       "blank", "other" (any other directive)                            *)
(*   p : 1 when the address starts with VPN_BASE_IP, 0 otherwise           *)
(*   v : the key, or the host octet of the address                         *)
(*   m : the prefix length of the address (0 for 0.0.0.0/0)                *)
(* Keys are numbers: private key n has public key n + KeySpace and is      *)
(* generated together with the preshared key n + 2*KeySpace.               *)
(***************************************************************************)
EXTENDS Integers, Sequences, FiniteSets, TLC

\* Number of key triples generate_keys can hand out in one behaviour.
MaxKeys == 3

\* config/settings.py: VPN_CLIENT_START_IP (default "2")
VPN_CLIENT_START_IP == 2

\* The client names the commands are called with; "wg0" is accepted by the
\* name check of add_client_handler like any other name.
Names == {"alice", "bob", "wg0"}

\* <vpn_config_dir>/wg0.conf
ServerName == "wg0"

KeySpace == MaxKeys + 1
ServerPrivateKey == 0
NoKey == 0 - 1

\* `wg pubkey`: the public key of a private key
WgPubkey(priv) == priv + KeySpace

\* `wg genpsk` for the n-th generated triple
WgGenpsk(n) == n + 2 * KeySpace

Max(S) == CHOOSE x \in S : \A y \in S : y <= x

---------------------------------------------------------------------------
(* Lines and files *)

Line(k, p, v, m) == [k |-> k, p |-> p, v |-> v, m |-> m]
Hdr(tag) == Line(tag, 0, 0, 0)
KeyLine(k, key) == Line(k, 0, key, 0)
Blank == Line("blank", 0, 0, 0)
Other == Line("other", 0, 0, 0)

NoFile == [exists |-> FALSE, lines |-> <<>>, nl |-> FALSE]
File(lines, nl) == [exists |-> TRUE, lines |-> lines, nl |-> nl]

\* os.path.exists(os.path.join(vpn_config_dir, f"{name}.conf"))
PathExists(fsys, name) == fsys[name].exists

\* The server document as installed: an [Interface] section and no peers.
InitialServerLines ==
    << Hdr("Interface"),
       KeyLine("PrivateKey", ServerPrivateKey),
       Line("Address", 1, 1, 24),
       Other >>

\* re.search(r'\[Interface\].*?PrivateKey\s*=\s*([^\s]+)', text, re.DOTALL):
\* the first PrivateKey line after the first [Interface] header, NoKey when
\* there is no match.
InterfacePrivateKey(lines) ==
    LET hs == {i \in 1..Len(lines) : lines[i].k = "Interface"}
    IN  IF hs = {} THEN NoKey
        ELSE LET h  == CHOOSE i \in hs : \A j \in hs : i <= j
                 ks == {i \in h..Len(lines) : lines[i].k = "PrivateKey"}
             IN  IF ks = {} THEN NoKey
                 ELSE lines[CHOOSE i \in ks : \A j \in ks : i <= j].v

\* re.search(r'\[Peer\].*?PublicKey\s*=\s*([^\s]+)', text, re.DOTALL)
PeerPublicKey(lines) ==
    LET hs == {i \in 1..Len(lines) : lines[i].k = "Peer"}
    IN  IF hs = {} THEN NoKey
        ELSE LET h  == CHOOSE i \in hs : \A j \in hs : i <= j
                 ks == {i \in h..Len(lines) : lines[i].k = "PublicKey"}
             IN  IF ks = {} THEN NoKey
                 ELSE lines[CHOOSE i \in ks : \A j \in ks : i <= j].v

---------------------------------------------------------------------------
(* bot/utils.py *)

\* re.findall(rf'AllowedIPs\s*=\s*{base_ip_escaped}\.(\d+)/32', content)
AllowedHosts(lines) ==
    {lines[i].v : i \in {j \in 1..Len(lines) :
                            /\ lines[j].k = "AllowedIPs"
                            /\ lines[j].p = 1
                            /\ lines[j].m = 32}}

\* A plausible slip: the next address is counted instead of taken past the
\* maximum.
NextIpByCount(f) ==
    IF ~f.exists THEN VPN_CLIENT_START_IP
    ELSE VPN_CLIENT_START_IP + Cardinality(AllowedHosts(f.lines))

\* get_next_client_ip, given the file at <vpn_config_dir>/wg0.conf
get_next_client_ip(f) ==
    IF ~f.exists THEN VPN_CLIENT_START_IP
    ELSE IF AllowedHosts(f.lines) # {}
         THEN Max(AllowedHosts(f.lines)) + 1
         ELSE VPN_CLIENT_START_IP

\* get_server_public_key: NoKey stands for None.  pubkeyOk is the outcome of
\* the `wg pubkey` call.
get_server_public_key(f, pubkeyOk) ==
    IF ~f.exists THEN NoKey
    ELSE IF InterfacePrivateKey(f.lines) = NoKey THEN NoKey
    ELSE IF pubkeyOk THEN WgPubkey(InterfacePrivateKey(f.lines))
    ELSE NoKey

\* re.findall(r'\[Peer\]\s*\n(.*?)(?=\n\[Peer\]|\n\[Interface\]|\Z)', ...)[-1]:
\* the lines after the last [Peer] header up to the next section header or
\* the end of the text; <<>> with found = FALSE when no header matches.  A
\* header matches only when a newline follows it.
LastPeerSection(f) ==
    LET n  == Len(f.lines)
        hs == {i \in 1..n : f.lines[i].k = "Peer" /\ (i < n \/ f.nl)}
    IN  IF hs = {} THEN [found |-> FALSE, body |-> <<>>]
        ELSE LET h    == Max(hs)
                 nx   == {i \in (h+1)..n : f.lines[i].k \in {"Peer", "Interface"}}
                 stop == IF nx = {} THEN n + 1
                         ELSE CHOOSE i \in nx : \A j \in nx : i <= j
             IN  [found |-> TRUE, body |-> SubSeq(f.lines, h + 1, stop - 1)]

\* re.search(rf'{field}\s*=\s*...', last_peer_section): the first line of
\* that kind in the section, 0 when there is none.
FirstOfKind(body, kind) ==
    LET ks == {i \in 1..Len(body) : body[i].k = kind}
    IN  IF ks = {} THEN 0 ELSE CHOOSE i \in ks : \A j \in ks : i <= j

\* A slip: the interface is made to hold the applied peer alone, as a
\* replace of the peer table would.
WgReplacePeers(liveSet, key) == {key}

\* `wg set <if> peer <key> ... allowed-ips <ips>` that exits 0: the peer is
\* in the interface afterwards, every other peer stays.
WgSetPeer(liveSet, key) == liveSet \cup {key}

\* A slip: the status query is not consulted at all.
ExistingPeersIgnored(liveSet, showOk) == {}

\* The peers reload_wg_config believes the interface has: `wg show` parsed,
\* or nothing when the query failed (lines 309-320).
ExistingPeers(liveSet, showOk) == IF showOk THEN liveSet ELSE {}

ApplyResult(ok, msg, liveSet, cmds, key) ==
    [ok |-> ok, msg |-> msg, live |-> liveSet, cmds |-> cmds, key |-> key]

\* A slip: the error text of `wg set` is not looked at.
NeverAlreadyExists(outcome) == FALSE

\* "already exists" in error_msg.lower() or "file exists" in
\* error_msg.lower() (line 398), for the error text of a `wg set` that
\* exited non-zero
AlreadyExists(outcome) == outcome = "exists"

\* A slip: no handler around the body, the exception leaves the function
\* and there is no returned pair.
Reraise(liveSet, cmds, key) == ApplyResult(FALSE, "raised", liveSet, cmds, key)

\* except Exception as e: return False, f"Ошибка: {e}" (lines 407-409)
ExceptReturn(liveSet, cmds, key) == ApplyResult(FALSE, "exception", liveSet, cmds, key)

\* reload_wg_config(vpn_config_dir).  env.show: did `wg show` succeed;
\* env.set: the outcome of `wg set` ("ok": exit 0, "exists": an "already
\* exists" error, "error": another error, "missing": the command was not
\* found, "timeout": the call raised TimeoutExpired).
reload_wg_config(fsys, liveSet, env) ==
    IF ~PathExists(fsys, ServerName)
    THEN ApplyResult(FALSE, "no_config", liveSet, 0, NoKey)
    ELSE
    LET existing == ExistingPeers(liveSet, env.show)
        sec      == LastPeerSection(fsys[ServerName])
        pk       == FirstOfKind(sec.body, "PublicKey")
        ai       == FirstOfKind(sec.body, "AllowedIPs")
        key      == IF pk = 0 THEN NoKey ELSE sec.body[pk].v
    IN  IF ~sec.found
        THEN ApplyResult(TRUE, "no_peers", liveSet, 0, NoKey)
        ELSE IF pk = 0
        THEN ApplyResult(FALSE, "no_public_key", liveSet, 0, NoKey)
        ELSE IF key \in existing
        THEN ApplyResult(TRUE, "already_applied", liveSet, 0, key)
        ELSE IF ai = 0
        THEN ApplyResult(FALSE, "no_allowed_ips", liveSet, 0, key)
        ELSE IF env.set = "ok"
        THEN ApplyResult(TRUE, "applied", WgSetPeer(liveSet, key), 1, key)
        ELSE IF env.set \in {"exists", "error"}
        THEN IF AlreadyExists(env.set)
             THEN ApplyResult(TRUE, "already_exists", liveSet, 1, key)
             ELSE ApplyResult(FALSE, "set_error", liveSet, 1, key)
        ELSE IF env.set = "missing"
        THEN ApplyResult(FALSE, "wg_unavailable", liveSet, 1, key)
        ELSE ExceptReturn(liveSet, 1, key)

\* restart_vpn(docker_compose_dir, vpn_config_dir)
restart_vpn(fsys, liveSet, env) == reload_wg_config(fsys, liveSet, env)

---------------------------------------------------------------------------
(* bot/vpn_manager.py *)

\* The [Peer] section create_client appends (without its leading "\n").
PeerLines(pub, psk, host) ==
    << Hdr("Peer"),
       KeyLine("PublicKey", pub),
       KeyLine("PresharedKey", psk),
       Line("AllowedIPs", 1, host, 32) >>

\* open(path, 'a').write("\n" + section + "\n"): the leading newline ends an
\* unterminated last line, and is a blank line of its own otherwise.
AppendPeer(f, pub, psk, host) ==
    File((IF f.nl \/ f.lines = <<>> THEN Append(f.lines, Blank) ELSE f.lines)
            \o PeerLines(pub, psk, host),
         TRUE)

\* The AmneziaWG parameters as create_client and get_client_config write
\* them: the Jc line and the lines Jmin .. H4
AmneziaParams == << Line("Jc", 0, 0, 0), Line("Obfuscation", 0, 0, 0) >>

\* client_config_full (lines 86-104), which create_client returns to its
\* caller; a slip would be to store it in place of client_config_basic.
ClientConfigFull(priv, psk, host, serverPub, ip) ==
    [exists |-> TRUE,
     lines |-> << Line("Interface", 0, 0, 0),
                  Line("PrivateKey", 0, priv, 0),
                  Line("Address", 1, host, 32),
                  Line("other", 0, 0, 0) >>
               \o AmneziaParams
               \o << Line("blank", 0, 0, 0),
                     Line("Peer", 0, 0, 0),
                     Line("PublicKey", 0, serverPub, 0),
                     Line("PresharedKey", 0, psk, 0),
                     Line("Endpoint", 0, ip, 0),
                     Line("AllowedIPs", 0, 0, 0),
                     Line("other", 0, 0, 0) >>,
     nl |-> FALSE]

\* client_config_basic: the file create_client stores (no trailing newline).
\* ip is what get_external_ip returned: 4 an IPv4 address, 6 or 60 an IPv6
\* address, 0 the text UNKNOWN_IP.
ClientConfigBasic(priv, psk, host, serverPub, ip) ==
    File(<< Hdr("Interface"),
            KeyLine("PrivateKey", priv),
            Line("Address", 1, host, 32),
            Other,
            Blank,
            Hdr("Peer"),
            KeyLine("PublicKey", serverPub),
            KeyLine("PresharedKey", psk),
            Line("Endpoint", 0, ip, 0),
            Line("AllowedIPs", 0, 0, 0),
            Other >>,
         FALSE)

\* A slip: the existence check of create_client is left out.
NeverExists(fsys, name) == FALSE

\* create_client line 40: os.path.exists(client_config_path)
ClientExists(fsys, name) == PathExists(fsys, name)

OpResult(ok, msg, fsys, key) ==
    [ok |-> ok, msg |-> msg, fs |-> fsys, key |-> key]

\* create_client(client_name, vpn_config_dir, ...).  n is the private key
\* `wg genkey` returns when it succeeds; env.ip, env.keygen (did the three
\* key commands succeed) and env.pubkey (did `wg pubkey` of the server key
\* succeed) are the outcomes of the external calls.
create_client(fsys, name, n, env) ==
    IF ClientExists(fsys, name)
    THEN OpResult(FALSE, "exists", fsys, NoKey)
    ELSE IF ~PathExists(fsys, ServerName)
    THEN OpResult(FALSE, "no_server_config", fsys, NoKey)
    ELSE
    LET srv       == fsys[ServerName]
        serverPub == get_server_public_key(srv, env.pubkey)
        host      == get_next_client_ip(srv)
        pub       == WgPubkey(n)
        psk       == WgGenpsk(n)
    IN  IF ~env.keygen
        THEN OpResult(FALSE, "keys", fsys, NoKey)
        ELSE IF serverPub = NoKey
        THEN OpResult(FALSE, "keys", fsys, NoKey)
        ELSE OpResult(TRUE, "created",
                      [fsys EXCEPT
                         ![ServerName] = AppendPeer(srv, pub, psk, host),
                         ![name] = ClientConfigBasic(n, psk, host, serverPub, env.ip)],
                      pub)

\* A slip: the [Peer] header already copied is not taken back.
KeepHeader(new) == new

\* A slip: the scan for the header runs forward and stops at the first
\* [Peer] header kept so far.
TruncateAtFirstPeer(new) ==
    LET hs == {i \in 1..Len(new) : new[i].k = "Peer"}
    IN  IF hs = {} THEN new
        ELSE SubSeq(new, 1, (CHOOSE i \in hs : \A j \in hs : i <= j) - 1)

\* new_lines[:last_peer_idx]: everything before the last [Peer] header kept
\* so far (lines 203-214)
TruncateAtLastPeer(new) ==
    LET hs == {i \in 1..Len(new) : new[i].k = "Peer"}
    IN  IF hs = {} THEN new ELSE SubSeq(new, 1, Max(hs) - 1)

\* A slip: a section header does not end the skipping.
SkipStays(skip) == skip

\* skip_current_peer = False at a [Peer] header and at any other header
\* (lines 190 and 227)
SkipAfterHeader(skip) == FALSE

\* The loop of delete_client over the server lines (lines 181-234): the
\* lines kept, whether the key was found, and whether the last line read
\* was kept.
RECURSIVE DeleteScan(_, _, _, _, _, _, _)
DeleteScan(lines, i, new, skip, found, kept, key) ==
    IF i > Len(lines) THEN [lines |-> new, found |-> found, kept |-> kept]
    ELSE LET l == lines[i]
         IN  IF l.k = "Peer"
             THEN DeleteScan(lines, i + 1, Append(new, l), SkipAfterHeader(skip),
                             found, TRUE, key)
             ELSE IF l.k = "PublicKey"
             THEN IF l.v = key
                  THEN DeleteScan(lines, i + 1, TruncateAtLastPeer(new),
                                  TRUE, TRUE, FALSE, key)
                  ELSE DeleteScan(lines, i + 1, Append(new, l), skip, found, TRUE, key)
             ELSE IF l.k = "Interface"
             THEN DeleteScan(lines, i + 1, Append(new, l), SkipAfterHeader(skip),
                             found, TRUE, key)
             ELSE IF skip
             THEN DeleteScan(lines, i + 1, new, skip, found, FALSE, key)
             ELSE DeleteScan(lines, i + 1, Append(new, l), skip, found, TRUE, key)

\* A slip: the last [Peer] section is dropped whatever its key is.
RemoveLastPeer(f, key) ==
    LET hs == {i \in 1..Len(f.lines) : f.lines[i].k = "Peer"}
    IN  IF hs = {} THEN f ELSE File(SubSeq(f.lines, 1, Max(hs) - 1), TRUE)

\* readlines() ... writelines(new_lines) (lines 178-238): only the last line
\* of the text can lack its newline, and it still lacks it when it is kept.
RemovePeerByKey(f, key) ==
    LET r == DeleteScan(f.lines, 1, <<>>, FALSE, FALSE, FALSE, key)
    IN  IF r.lines = <<>> THEN File(<<>>, FALSE)
        ELSE File(r.lines, IF r.kept THEN f.nl ELSE TRUE)

\* delete_client(client_name, vpn_config_dir, ...).  pubkeyOk is the outcome
\* of `wg pubkey` on the client's private key.
delete_client(fsys, name, pubkeyOk) ==
    IF ~PathExists(fsys, name)
    THEN OpResult(FALSE, "not_found", fsys, NoKey)
    ELSE
    LET text    == fsys[name].lines
        priv    == InterfacePrivateKey(text)
        peerKey == PeerPublicKey(text)
        key     == IF priv = NoKey THEN peerKey ELSE WgPubkey(priv)
        removed == [fsys EXCEPT ![name] = NoFile]
    IN  IF priv = NoKey /\ peerKey = NoKey
        THEN OpResult(TRUE, "no_key", removed, NoKey)
        ELSE IF priv # NoKey /\ ~pubkeyOk
        THEN OpResult(FALSE, "pubkey_error", removed, NoKey)
        ELSE IF PathExists(fsys, ServerName)
        THEN OpResult(TRUE, "deleted",
                      [[fsys EXCEPT ![ServerName] = RemovePeerByKey(@, key)]
                          EXCEPT ![name] = NoFile],
                      key)
        ELSE OpResult(TRUE, "deleted", removed, key)

---------------------------------------------------------------------------
(* The state: the files of vpn_config_dir, the peers of the running        *)
(* interface, and a record of the call that produced the state.            *)

VARIABLES
    fs,       \* name |-> the file <vpn_config_dir>/<name>.conf
    live,     \* public keys of the peers of the interface WG_INTERFACE
    nkeys,    \* key triples generated so far
    last,     \* the last call: its arguments and its result
    out,      \* what the last query returned (0 before any)
    sameDir,  \* configuration: DOCKER_COMPOSE_DIR is VPN_CONFIG_DIR
    prompts,  \* callback data of the confirmation buttons on display
    co        \* the handler coroutines: who runs on the event loop, and
              \* where each add_client_handler invocation stands

vars == <<fs, live, nkeys, last, out, sameDir, prompts, co>>

\* Concurrent invocations of add_client_handler
Tasks == {1, 2}

\* A handler that is not running: no name, no allocation
IdleTask == [pc |-> "idle", name |-> "", host |-> 0, n |-> 0, spub |-> NoKey,
             ip |-> 0, ok |-> FALSE]

\* No handler runs: the event loop is free (loop = 0)
NoCoroutines == [loop |-> 0, t |-> [i \in Tasks |-> IdleTask]]

\* Outcomes of get_external_ip the calls below are run with (4: an IPv4
\* address; the stored Endpoint is read by none of them)
ExternalIps == {4}

\* Outcomes of the external calls of create_client: all succeed with some
\* external address, or key generation fails, or `wg pubkey` of the server
\* key fails.
CreateEnvs ==
    {[ip |-> ip, keygen |-> TRUE, pubkey |-> TRUE] : ip \in ExternalIps}
    \cup {[ip |-> 4, keygen |-> FALSE, pubkey |-> TRUE],
          [ip |-> 4, keygen |-> TRUE, pubkey |-> FALSE]}

\* Outcomes of the `wg set` call of reload_wg_config
SetOutcomes == {"ok", "exists", "error", "missing", "timeout"}

Call(op, name, ok, msg, key, cmds, show) ==
    [op |-> op, name |-> name, ok |-> ok, msg |-> msg, key |-> key,
     cmds |-> cmds, show |-> show]

Init ==
    /\ \E nl \in BOOLEAN :
          fs = [n \in Names |-> IF n = ServerName
                                THEN File(InitialServerLines, nl)
                                ELSE NoFile]
    /\ live = {}
    /\ nkeys = 0
    /\ last = Call("none", "", TRUE, "", NoKey, 0, TRUE)
    /\ out = 0
    /\ sameDir = TRUE
    /\ prompts = {}
    /\ co = NoCoroutines

\* CreateClient(name): create_client with the outcomes of its external calls
CreateClient(name) ==
    \E env \in CreateEnvs :
        LET r == create_client(fs, name, nkeys + 1, env)
        IN  /\ r.ok => nkeys < MaxKeys
            /\ fs' = r.fs
            /\ nkeys' = IF r.ok THEN nkeys + 1 ELSE nkeys
            /\ UNCHANGED <<live, out, sameDir, prompts, co>>
            /\ last' = Call("create", name, r.ok, r.msg, r.key, 0, TRUE)

\* DeleteClient(name): delete_client with the outcome of `wg pubkey`
DeleteClient(name) ==
    \E pubkey \in BOOLEAN :
        LET r == delete_client(fs, name, pubkey)
        IN  /\ fs' = r.fs
            /\ UNCHANGED <<nkeys, live, out, sameDir, prompts, co>>
            /\ last' = Call("delete", name, r.ok, r.msg, r.key, 0, TRUE)

\* ApplyChanges(): restart_vpn with the outcomes of `wg show` and `wg set`.
\* The tool reports "already exists" only for a peer the interface has.
ApplyChanges ==
    \E show \in BOOLEAN, set \in SetOutcomes :
        LET r == restart_vpn(fs, live, [show |-> show, set |-> set])
        IN  /\ r.msg = "already_exists" => r.key \in live
            /\ live' = r.live
            /\ UNCHANGED <<fs, nkeys, out, sameDir, prompts, co>>
            /\ last' = Call("apply", "", r.ok, r.msg, r.key, r.cmds, show)

Next ==
    \/ \E name \in Names : CreateClient(name)
    \/ \E name \in Names : DeleteClient(name)
    \/ ApplyChanges

Spec == Init /\ [][Next]_vars

---------------------------------------------------------------------------
(* get_next_client_ip on its own: the server document is any text of at    *)
(* most MaxDocLen lines, or is missing.                                    *)

\* Longest server document NextIpInit draws
MaxDocLen == 4

\* The lines those documents are made of: section headers, a public key,
\* AllowedIPs inside the base prefix with /32 and with /24, AllowedIPs of
\* another prefix, of 0.0.0.0/0, and an Address line inside the base prefix.
DocLines ==
    {Hdr("Peer"), KeyLine("PublicKey", WgPubkey(1))}
    \cup {Line("AllowedIPs", 1, h, 32) : h \in {2, 3, 5}}
    \cup {Line("AllowedIPs", 1, 7, 24),
          Line("AllowedIPs", 0, 9, 32),
          Line("AllowedIPs", 0, 0, 0),
          Line("Address", 1, 8, 32)}

RECURSIVE Texts(_)
Texts(n) ==
    IF n = 0 THEN {<<>>}
    ELSE Texts(n - 1)
         \cup {Append(t, l) : t \in {u \in Texts(n - 1) : Len(u) = n - 1},
                              l \in DocLines}

NextIpInit ==
    /\ \E f \in {NoFile} \cup {File(t, TRUE) : t \in Texts(MaxDocLen)} :
          fs = [n \in Names |-> IF n = ServerName THEN f ELSE NoFile]
    /\ live = {}
    /\ nkeys = 0
    /\ last = Call("none", "", TRUE, "", NoKey, 0, TRUE)
    /\ out = 0
    /\ sameDir = TRUE
    /\ prompts = {}
    /\ co = NoCoroutines

\* NextClientAddress(doc): get_next_client_ip(vpn_config_dir)
NextClientAddress ==
    /\ out' = get_next_client_ip(fs[ServerName])
    /\ last' = Call("next_ip", "", TRUE, "", NoKey, 0, TRUE)
    /\ UNCHANGED <<fs, live, nkeys, sameDir, prompts, co>>

NextIpNext == NextClientAddress

SpecNextIp == NextIpInit /\ [][NextIpNext]_vars

---------------------------------------------------------------------------
(* bot/handlers.py: the command handlers.  Each handler runs create_client *)
(* or delete_client and the restart_vpn that follows in one piece.         *)

\* Telegram users sending commands; config/settings.py ADMIN_IDS
Users == {1, 2}
ADMIN_IDS == {1}

\* A slip: the allow-list is not consulted.
AnyoneIsAdmin(user) == TRUE

\* config/settings.py is_admin
is_admin(user) == user \in ADMIN_IDS

\* Confirmation buttons that can be on display at once
MaxPrompts == 1

\* Outcomes of the external calls of restart_vpn
ApplyEnvs == [show : BOOLEAN, set : SetOutcomes]

\* os.path.exists(os.path.join(DOCKER_COMPOSE_DIR, f"{name}.conf")): the
\* directory of the compose file holds the client files only when it is the
\* configuration directory itself; nothing writes a .conf file to it.
ComposePathExists(name) == sameDir /\ PathExists(fs, name)

\* callback_data=f"delete_yes_{client_name}"
DeleteYes(name) == "delete_yes_" \o name

\* str.replace(old, ""): s from position i on with every occurrence of old
\* taken out, found from left to right without overlap
RECURSIVE StrReplace(_, _, _)
StrReplace(s, old, i) ==
    IF i > Len(s) THEN ""
    ELSE IF i + Len(old) - 1 <= Len(s) /\ SubSeq(s, i, i + Len(old) - 1) = old
         THEN StrReplace(s, old, i + Len(old))
         ELSE SubSeq(s, i, i) \o StrReplace(s, old, i + 1)

\* query.data.replace("delete_yes_", "")
CallbackClientName(data) == StrReplace(data, "delete_yes_", 1)

BotCall(op, user, name, ok, msg, key, amsg) ==
    [op |-> op, user |-> user, name |-> name, ok |-> ok, msg |-> msg,
     key |-> key, amsg |-> amsg]

\* A handler answered without touching anything (refusal, usage, not found)
Refuse(op, user, name, msg) ==
    /\ last' = BotCall(op, user, name, FALSE, msg, NoKey, "")
    /\ UNCHANGED <<fs, live, nkeys, out, sameDir, prompts, co>>

BotInit ==
    /\ \E nl \in BOOLEAN :
          fs = [n \in Names |-> IF n = ServerName
                                THEN File(InitialServerLines, nl)
                                ELSE NoFile]
    /\ live = {}
    /\ nkeys = 0
    /\ last = BotCall("none", 0, "", TRUE, "", NoKey, "")
    /\ out = 0
    /\ sameDir \in BOOLEAN
    /\ prompts = {}
    /\ co = NoCoroutines

\* What the restart_vpn call of a handler can return: every outcome of its
\* external calls when the handler reaches it, nothing to report otherwise.
\* The tool reports "already exists" only for a peer the interface has.
NotApplied == ApplyResult(FALSE, "", live, 0, NoKey)
ApplyOutcomes(reached, fsys) ==
    IF reached
    THEN {a \in {restart_vpn(fsys, live, aenv) : aenv \in ApplyEnvs} :
             a.msg = "already_exists" => a.key \in live}
    ELSE {NotApplied}

\* add_client_handler: /add_client <name> (every name of Names passes the
\* ^[a-zA-Z0-9_-]+$ check)
AddClientHandler(user, name) ==
    IF ~is_admin(user) THEN Refuse("add_client", user, name, "refused")
    ELSE \E r \in {create_client(fs, name, nkeys + 1, env) : env \in CreateEnvs} :
         \E a \in ApplyOutcomes(r.ok, r.fs) :
            /\ r.ok => nkeys < MaxKeys
            /\ fs' = r.fs
            /\ nkeys' = IF r.ok THEN nkeys + 1 ELSE nkeys
            /\ live' = a.live
            /\ last' = BotCall("add_client", user, name, r.ok, r.msg, r.key, a.msg)
            /\ UNCHANGED <<out, sameDir, prompts, co>>

\* delete_client_handler: /delete_client <name> offers the confirmation
DeleteClientHandler(user, name) ==
    IF ~is_admin(user) THEN Refuse("delete_client", user, name, "refused")
    ELSE IF ~ComposePathExists(name)
    THEN Refuse("delete_client", user, name, "not_found")
    ELSE /\ Cardinality(prompts \cup {DeleteYes(name)}) <= MaxPrompts
         /\ prompts' = prompts \cup {DeleteYes(name)}
         /\ last' = BotCall("delete_client", user, name, TRUE, "confirm", NoKey, "")
         /\ UNCHANGED <<fs, live, nkeys, out, sameDir, co>>

\* button_handler on "delete_yes_<name>": the answer replaces the message
\* and its buttons
ButtonHandler(user, data) ==
    LET name == CallbackClientName(data)
    IN  IF ~is_admin(user)
        THEN /\ last' = BotCall("button", user, name, FALSE, "refused", NoKey, "")
             /\ prompts' = prompts \ {data}
             /\ UNCHANGED <<fs, live, nkeys, out, sameDir, co>>
        ELSE \E r \in {delete_client(fs, name, pubkey) : pubkey \in BOOLEAN} :
             \E a \in ApplyOutcomes(r.ok, r.fs) :
                /\ fs' = r.fs
                /\ live' = a.live
                /\ last' = BotCall("button", user, name, r.ok, r.msg, r.key, a.msg)
                /\ prompts' = prompts \ {data}
                /\ UNCHANGED <<nkeys, out, sameDir, co>>

\* button_handler on "delete_no"
ButtonCancel(user, data) ==
    /\ last' = BotCall("button", user, CallbackClientName(data), FALSE,
                       IF is_admin(user) THEN "cancelled" ELSE "refused", NoKey, "")
    /\ prompts' = prompts \ {data}
    /\ UNCHANGED <<fs, live, nkeys, out, sameDir, co>>

\* restart_handler: /restart
RestartHandler(user) ==
    IF ~is_admin(user) THEN Refuse("restart", user, "", "refused")
    ELSE \E a \in ApplyOutcomes(TRUE, fs) :
            /\ live' = a.live
            /\ last' = BotCall("restart", user, "", a.ok, a.msg, a.key, a.msg)
            /\ UNCHANGED <<fs, nkeys, out, sameDir, prompts, co>>

BotNext ==
    \/ \E user \in Users, name \in Names : AddClientHandler(user, name)
    \/ \E user \in Users, name \in Names : DeleteClientHandler(user, name)
    \/ \E user \in Users, data \in prompts : ButtonHandler(user, data)
    \/ \E user \in Users, data \in prompts : ButtonCancel(user, data)
    \/ \E user \in Users : RestartHandler(user)

SpecBot == BotInit /\ [][BotNext]_vars

---------------------------------------------------------------------------
(* Concurrent add_client_handler invocations.  The handlers are coroutines *)
(* of one event loop: a handler runs alone from one await to the next, and *)
(* create_client and restart_vpn are plain calls with no await in them.    *)
(* The steps of create_client are taken one at a time by the coroutine     *)
(* that holds the loop.                                                    *)

\* A slip: every step gives the loop away, as if create_client awaited (or
\* ran in a worker thread).
AwaitsAfterAny(step) == TRUE

\* The awaits of add_client_handler: the progress reply (lines 93-96) and
\* the reply with the result (lines 117-124).  Nothing between them awaits.
AwaitsAfter(step) == step \in {"progress_reply", "result_reply"}

\* Who holds the event loop after task t has taken the step
Release(step, t) == IF AwaitsAfter(step) THEN 0 ELSE t

\* Task t may run: the loop is free, or t holds it
Runs(t) == co.loop \in {0, t}

ConcFrame == UNCHANGED <<last, out, sameDir, prompts>>

\* The handler is entered with an admin's /add_client <name> and sends the
\* progress reply (lines 71-96)
StartAdd(t, name) ==
    /\ Runs(t)
    /\ co.t[t].pc = "idle"
    /\ co' = [loop |-> Release("progress_reply", t),
              t |-> [co.t EXCEPT ![t] = [IdleTask EXCEPT !.pc = "replied",
                                                         !.name = name]]]
    /\ UNCHANGED <<fs, live, nkeys>>
    /\ ConcFrame

\* create_client lines 39-46: the two existence checks
CheckStep(t) ==
    /\ Runs(t)
    /\ co.t[t].pc = "replied"
    /\ IF ClientExists(fs, co.t[t].name) \/ ~PathExists(fs, ServerName)
       THEN co' = [loop |-> Release("result_reply", t),
                   t |-> [co.t EXCEPT ![t].pc = "idle"]]
       ELSE co' = [loop |-> Release("check", t),
                   t |-> [co.t EXCEPT ![t].pc = "checked"]]
    /\ UNCHANGED <<fs, live, nkeys>>
    /\ ConcFrame

\* create_client lines 49-55: the external address, the server key, the
\* next address read from the server document, the new keys
ScanStep(t) ==
    /\ Runs(t)
    /\ co.t[t].pc = "checked"
    /\ nkeys < MaxKeys
    /\ \E env \in CreateEnvs :
          LET spub == get_server_public_key(fs[ServerName], env.pubkey)
          IN  IF ~env.keygen \/ spub = NoKey
              THEN /\ co' = [loop |-> Release("result_reply", t),
                             t |-> [co.t EXCEPT ![t].pc = "idle"]]
                   /\ nkeys' = nkeys
              ELSE /\ co' = [loop |-> Release("scan", t),
                             t |-> [co.t EXCEPT
                                      ![t].pc = "scanned",
                                      ![t].host = get_next_client_ip(fs[ServerName]),
                                      ![t].n = nkeys + 1,
                                      ![t].spub = spub,
                                      ![t].ip = env.ip]]
                   /\ nkeys' = nkeys + 1
    /\ UNCHANGED <<fs, live>>
    /\ ConcFrame

\* create_client lines 58-67: the peer section is appended
AppendStep(t) ==
    /\ Runs(t)
    /\ co.t[t].pc = "scanned"
    /\ fs' = [fs EXCEPT ![ServerName] =
                 AppendPeer(@, WgPubkey(co.t[t].n), WgGenpsk(co.t[t].n), co.t[t].host)]
    /\ co' = [loop |-> Release("append", t),
              t |-> [co.t EXCEPT ![t].pc = "appended"]]
    /\ UNCHANGED <<live, nkeys>>
    /\ ConcFrame

\* create_client lines 107-111: the client file is written
WriteStep(t) ==
    /\ Runs(t)
    /\ co.t[t].pc = "appended"
    /\ fs' = [fs EXCEPT ![co.t[t].name] =
                 ClientConfigBasic(co.t[t].n, WgGenpsk(co.t[t].n), co.t[t].host,
                                   co.t[t].spub, co.t[t].ip)]
    /\ co' = [loop |-> Release("write", t),
              t |-> [co.t EXCEPT ![t].pc = "written"]]
    /\ UNCHANGED <<live, nkeys>>
    /\ ConcFrame

\* add_client_handler lines 105-120: restart_vpn, then the reply
ApplyStep(t) ==
    /\ Runs(t)
    /\ co.t[t].pc = "written"
    /\ \E a \in ApplyOutcomes(TRUE, fs) : live' = a.live
    /\ co' = [loop |-> Release("result_reply", t),
              t |-> [co.t EXCEPT ![t].pc = "idle", ![t].ok = TRUE]]
    /\ UNCHANGED <<fs, nkeys>>
    /\ ConcFrame

ConcNext ==
    \/ \E t \in Tasks, name \in Names : StartAdd(t, name)
    \/ \E t \in Tasks : CheckStep(t)
    \/ \E t \in Tasks : ScanStep(t)
    \/ \E t \in Tasks : AppendStep(t)
    \/ \E t \in Tasks : WriteStep(t)
    \/ \E t \in Tasks : ApplyStep(t)

SpecConc == Init /\ [][ConcNext]_vars

---------------------------------------------------------------------------
(* restart_vpn on its own: the server document holds up to ApplyMaxPeers   *)
(* peer sections, complete or lacking a field, the interface holds any of  *)
(* their keys, and every external call of reload_wg_config can succeed,    *)
(* fail or raise.                                                          *)

\* Peer sections of the documents ApplyInit draws
ApplyMaxPeers == 2

\* The section of the n-th peer: as create_client writes it, or edited by
\* hand to lack the preshared key, the allowed addresses or the public key
SectionVariants(n) ==
    LET full == PeerLines(WgPubkey(n), WgGenpsk(n), n + 1)
    IN  {full,
         << full[1], full[2], full[4] >>,
         << full[1], full[2], full[3] >>,
         << full[1], full[3], full[4] >>}

\* Server texts with at most n peer sections
RECURSIVE ApplyDocs(_)
ApplyDocs(n) ==
    IF n = 0 THEN {InitialServerLines}
    ELSE ApplyDocs(n - 1)
         \cup {d \o <<Blank>> \o v :
                  d \in {e \in ApplyDocs(n - 1) :
                            Cardinality({i \in 1..Len(e) : e[i].k = "Peer"}) = n - 1},
                  v \in SectionVariants(n)}

\* Outcomes of `docker ps` in _get_container_name and of `wg show`
ContainerOutcomes == {"found", "none", "timeout"}
ShowOutcomes == {"ok", "fail", "timeout"}

\* _get_container_name(): the first name `docker ps` prints, "" (None) when
\* it prints nothing, exits non-zero or raises
get_container_name(outcome) == IF outcome = "found" THEN "amnezia-awg" ELSE ""

\* `wg show` run through _run_wg_in_container, in the container or on the
\* host: reload_wg_config reads its output only when it exits 0 (line 311);
\* an exception is caught at lines 317-319
WgShowOk(container, outcome) == outcome = "ok"

ApplyCall(op, container, show, set, r) ==
    [op |-> op, container |-> container, show |-> show, set |-> set,
     ok |-> r.ok, msg |-> r.msg, key |-> r.key, cmds |-> r.cmds]

ApplyInit ==
    /\ \E f \in {NoFile} \cup {File(t, nl) : t \in ApplyDocs(ApplyMaxPeers),
                                             nl \in BOOLEAN} :
          fs = [n \in Names |-> IF n = ServerName THEN f ELSE NoFile]
    /\ live \in SUBSET {WgPubkey(n) : n \in 1..ApplyMaxPeers}
    /\ nkeys = 0
    /\ last = ApplyCall("none", "", "", "", ApplyResult(TRUE, "", {}, 0, NoKey))
    /\ out = 0
    /\ sameDir = TRUE
    /\ prompts = {}
    /\ co = NoCoroutines

\* restart_vpn(DOCKER_COMPOSE_DIR, VPN_CONFIG_DIR) with the outcomes of the
\* container lookup, of `wg show` and of `wg set`.  The tool reports
\* "already exists" only for a peer the interface has.
ApplyAttempt ==
    \E c \in ContainerOutcomes, sh \in ShowOutcomes, st \in SetOutcomes :
        LET container == get_container_name(c)
            r == restart_vpn(fs, live, [show |-> WgShowOk(container, sh), set |-> st])
        IN  /\ r.msg = "already_exists" => r.key \in live
            /\ live' = r.live
            /\ last' = ApplyCall("apply", c, sh, st, r)
            /\ UNCHANGED <<fs, nkeys, out, sameDir, prompts, co>>

ApplyNext == ApplyAttempt

SpecApply == ApplyInit /\ [][ApplyNext]_vars

---------------------------------------------------------------------------
(* create_client and delete_client on an installed directory: the server   *)
(* document holds the [Interface] section and up to DocMaxPeers peer       *)
(* sections in any order, with their fields in any of three orders, and a  *)
(* client file may be there without its peer and a peer without its file.  *)

\* Peer sections of the documents DocInit draws
DocMaxPeers == 2

\* The names of the clients the installed peers 1, 2, ... belong to
DocNames == <<"alice", "bob">>

\* The section of peer n with the fields as create_client writes them, with
\* the preshared key first, and with the public key last
PeerSectionOrders(n) ==
    LET f == PeerLines(WgPubkey(n), WgGenpsk(n), n + 1)
    IN  {f, << f[1], f[3], f[2], f[4] >>, << f[1], f[4], f[3], f[2] >>}

RECURSIVE Perms(_)
Perms(S) ==
    IF S = {} THEN {<<>>}
    ELSE UNION {{<<x>> \o q : q \in Perms(S \ {x})} : x \in S}

\* The orders of the sections: 0 is [Interface], n > 0 the section of peer n
Arrangements == UNION {Perms(S \cup {0}) : S \in SUBSET (1..DocMaxPeers)}

\* The text of an arrangement; sep: a blank line stands between sections
RECURSIVE JoinSections(_, _, _)
JoinSections(a, o, sep) ==
    IF a = <<>> THEN <<>>
    ELSE (IF Head(a) = 0 THEN InitialServerLines ELSE o[Head(a)])
         \o (IF sep /\ Len(a) > 1 THEN <<Blank>> ELSE <<>>)
         \o JoinSections(Tail(a), o, sep)

ServerDocs ==
    {File(JoinSections(a, o, sep), nl) :
        a \in Arrangements,
        o \in {g \in [1..DocMaxPeers -> UNION {PeerSectionOrders(n) : n \in 1..DocMaxPeers}] :
                  \A n \in 1..DocMaxPeers : g[n] \in PeerSectionOrders(n)},
        sep \in BOOLEAN,
        nl \in BOOLEAN}

\* The peers of a document: for every [Peer] header the first public key,
\* preshared key and AllowedIPs line of its section
SectionEnd(lines, h) ==
    LET nx == {i \in (h + 1)..Len(lines) : lines[i].k \in {"Peer", "Interface"}}
    IN  IF nx = {} THEN Len(lines) ELSE (CHOOSE i \in nx : \A j \in nx : i <= j) - 1

PeerRecord(lines, h) ==
    LET b  == SubSeq(lines, h + 1, SectionEnd(lines, h))
        pk == FirstOfKind(b, "PublicKey")
        ps == FirstOfKind(b, "PresharedKey")
        ai == FirstOfKind(b, "AllowedIPs")
    IN  [key |-> IF pk = 0 THEN NoKey ELSE b[pk].v,
         psk |-> IF ps = 0 THEN NoKey ELSE b[ps].v,
         ips |-> IF ai = 0 THEN Blank ELSE b[ai]]

PeerSet(f) ==
    {PeerRecord(f.lines, h) : h \in {i \in 1..Len(f.lines) : f.lines[i].k = "Peer"}}

DocCall(op, name, ok, msg, key, before) ==
    [op |-> op, name |-> name, ok |-> ok, msg |-> msg, key |-> key,
     before |-> before]

DocInit ==
    /\ \E d \in ServerDocs, have \in SUBSET (1..DocMaxPeers) :
          fs = [n \in Names |->
                   IF n = ServerName THEN d
                   ELSE IF \E i \in have : i <= Len(DocNames) /\ DocNames[i] = n
                   THEN LET i == CHOOSE j \in have : j <= Len(DocNames) /\ DocNames[j] = n
                        IN  ClientConfigBasic(i, WgGenpsk(i), i + 1,
                                              WgPubkey(ServerPrivateKey), 4)
                   ELSE NoFile]
    /\ live = {}
    /\ nkeys = DocMaxPeers
    /\ last = DocCall("none", "", TRUE, "", NoKey, {})
    /\ out = 0
    /\ sameDir = TRUE
    /\ prompts = {}
    /\ co = NoCoroutines

\* create_client(name, ...) on the installed directory
DocCreate(name) ==
    \E r \in {create_client(fs, name, nkeys + 1, env) : env \in CreateEnvs} :
        /\ r.ok => nkeys < MaxKeys
        /\ fs' = r.fs
        /\ nkeys' = IF r.ok THEN nkeys + 1 ELSE nkeys
        /\ last' = DocCall("create", name, r.ok, r.msg, r.key, PeerSet(fs[ServerName]))
        /\ UNCHANGED <<live, out, sameDir, prompts, co>>

\* delete_client(name, ...) on the installed directory
DocDelete(name) ==
    \E r \in {delete_client(fs, name, pubkey) : pubkey \in BOOLEAN} :
        /\ fs' = r.fs
        /\ last' = DocCall("delete", name, r.ok, r.msg, r.key, PeerSet(fs[ServerName]))
        /\ UNCHANGED <<nkeys, live, out, sameDir, prompts, co>>

DocNext ==
    \/ \E name \in Names : DocCreate(name)
    \/ \E name \in Names : DocDelete(name)

SpecDoc == DocInit /\ [][DocNext]_vars

---------------------------------------------------------------------------
(* What the claims speak of *)

\* The server document (NoFile once wg0.conf is gone)
Server == fs[ServerName]

\* The client files list_clients reads: every <name>.conf but wg0.conf
ClientFiles(fsys) == {n \in Names \ {ServerName} : fsys[n].exists}

\* re.search(rf'Address\s*=\s*{base_ip_escaped}\.(\d+)/32', file_content):
\* the host octet of a client file, 0 when nothing matches
ClientAddress(f) ==
    LET ks == {i \in 1..Len(f.lines) :
                  f.lines[i].k = "Address" /\ f.lines[i].p = 1 /\ f.lines[i].m = 32}
    IN  IF ks = {} THEN 0 ELSE f.lines[CHOOSE i \in ks : \A j \in ks : i <= j].v

\* The positions of the [Peer] headers, of the PublicKey lines and of the
\* /32 AllowedIPs lines of a text
PeerHeaders(lines) == {i \in 1..Len(lines) : lines[i].k = "Peer"}
KeyPositions(lines) == {i \in 1..Len(lines) : lines[i].k = "PublicKey"}
HostPositions(lines) ==
    {i \in 1..Len(lines) :
        lines[i].k = "AllowedIPs" /\ lines[i].p = 1 /\ lines[i].m = 32}

\* The public keys the server document declares
DeclaredKeys(f) == {f.lines[i].v : i \in KeyPositions(f.lines)}

\* The public key of the client stored in a client file
ClientKey(f) == WgPubkey(InterfacePrivateKey(f.lines))

---------------------------------------------------------------------------
(* list_clients after successful create_client and delete_client calls.    *)

\* The first line at or after i that is not blank (Len + 1 when none): what
\* \s*\n of peer_pattern runs over
RECURSIVE SkipBlanks(_, _)
SkipBlanks(lines, i) ==
    IF i > Len(lines) THEN i
    ELSE IF lines[i] = Blank THEN SkipBlanks(lines, i + 1)
    ELSE i

\* peer_pattern (line 269) matched at the [Peer] header at h: the header,
\* PublicKey on the next line, an optional PresharedKey line, AllowedIPs
\* inside the base prefix with /32; 0 when it does not match, the position
\* of the AllowedIPs line when it does
PeerPatternAt(lines, h) ==
    LET n == Len(lines)
        a == SkipBlanks(lines, h + 1)
        b == SkipBlanks(lines, a + 1)
        c == IF b <= n /\ lines[b].k = "PresharedKey"
             THEN SkipBlanks(lines, b + 1) ELSE b
    IN  IF /\ a <= n /\ lines[a].k = "PublicKey"
           /\ c <= n /\ lines[c].k = "AllowedIPs"
           /\ lines[c].p = 1 /\ lines[c].m = 32
        THEN c ELSE 0

RECURSIVE SortedSeq(_)
SortedSeq(S) ==
    IF S = {} THEN <<>>
    ELSE LET x == CHOOSE y \in S : \A z \in S : y <= z
         IN  <<x>> \o SortedSeq(S \ {x})

\* ip_to_name (lines 275-294): for every address found in a client file, a
\* client file that holds it; which one when several do depends on the
\* order of os.listdir
IpToNames(fsys) ==
    LET hosts == {ClientAddress(fsys[n]) : n \in ClientFiles(fsys)} \ {0}
    IN  {g \in [hosts -> Names] :
            \A h \in hosts : g[h] \in ClientFiles(fsys)
                             /\ ClientAddress(fsys[g[h]]) = h}

ListResult(ok, entries) == [ok |-> ok, entries |-> entries]

\* list_clients(vpn_config_dir): the entries of the text it returns, in
\* order; "client_" stands for the name f"client_{ip}" of a peer whose
\* address no client file holds
list_clients(fsys, ipToName) ==
    IF ~PathExists(fsys, ServerName) THEN ListResult(FALSE, <<>>)
    ELSE LET lines == fsys[ServerName].lines
             hs    == SortedSeq({h \in PeerHeaders(lines) :
                                    PeerPatternAt(lines, h) # 0})
         IN  ListResult(TRUE,
                 [i \in 1..Len(hs) |->
                     LET ip == lines[PeerPatternAt(lines, hs[i])].v
                     IN  [name |-> IF ip \in DOMAIN ipToName
                                   THEN ipToName[ip] ELSE "client_",
                          address |-> ip]])

\* A create_client call that succeeds
ListCreate(name) == CreateClient(name) /\ last'.ok

\* A delete_client call that succeeds
ListDelete(name) == DeleteClient(name) /\ last'.ok

\* ListClients()
ListClients ==
    /\ \E g \in IpToNames(fs) : out' = list_clients(fs, g)
    /\ last' = Call("list", "", TRUE, "", NoKey, 0, TRUE)
    /\ UNCHANGED <<fs, live, nkeys, sameDir, prompts, co>>

ListNext ==
    \/ \E name \in Names : ListCreate(name)
    \/ \E name \in Names : ListDelete(name)
    \/ ListClients

SpecList == Init /\ [][ListNext]_vars

---------------------------------------------------------------------------
(* get_client_config: the text handed out for a stored client file.        *)

\* endpoint_pattern r'Endpoint\s*=\s*(\[?)([^\]:]+)(\]?):(\d+)' (line 331)
\* on an Endpoint line: group 2 runs up to the first ':' or ']' of the host
\* text, and ':' with digits must follow it (after an optional ']').  For
\* host:port with a host without colon that is the port; for an IPv6 host
\* it is the second group of the address, so the pattern matches only when
\* that group starts with a digit.
EndpointMatches(l) == l.v \in {4, 0} \/ l.v = 60

\* ':' in addr, for addr the text of group 2: the class [^\]:] leaves no
\* colon in it, whatever the host text is
AddrHasColon(l) == FALSE

\* '.' in addr: only the IPv4 host text has dots in its first group
AddrHasDot(l) == l.v = 4

\* replace_ipv6(match) (lines 332-345) for an Endpoint line; ext is what
\* get_external_ip returns when it is asked
replace_ipv6(l, ext) ==
    IF EndpointMatches(l) /\ AddrHasColon(l) /\ ~AddrHasDot(l) /\ ext # 0
    THEN Line("Endpoint", 0, ext, 0)
    ELSE l

\* re.sub(endpoint_pattern, replace_ipv6, config_content)
SubEndpoints(lines, ext) ==
    [i \in 1..Len(lines) |->
        IF lines[i].k = "Endpoint" THEN replace_ipv6(lines[i], ext) ELSE lines[i]]

RenderResult(found, lines) == [found |-> found, lines |-> lines]

\* get_client_config(client_name, vpn_config_dir): None (found = FALSE) or
\* the text; the parameters go in front of the first [Peer], with a blank
\* line after them, unless a Jc line is there already
get_client_config(fsys, name, ext) ==
    IF ~PathExists(fsys, name) THEN RenderResult(FALSE, <<>>)
    ELSE LET text == SubEndpoints(fsys[name].lines, ext)
             hs   == {i \in 1..Len(text) : text[i].k = "Peer"}
         IN  IF \E i \in 1..Len(text) : text[i].k = "Jc"
             THEN RenderResult(TRUE, text)
             ELSE IF hs = {} THEN RenderResult(TRUE, text)
             ELSE LET h == CHOOSE i \in hs : \A j \in hs : i <= j
                  IN  RenderResult(TRUE,
                          SubSeq(text, 1, h - 1) \o AmneziaParams \o <<Blank>>
                              \o SubSeq(text, h, Len(text)))

\* What get_external_ip returns: see the kinds of host text above
RenderIps == {4, 6, 60, 0}

\* A client file installed by hand with its IPv6 endpoint in brackets
InstalledClient(ip) ==
    LET f == ClientConfigBasic(1, WgGenpsk(1), VPN_CLIENT_START_IP,
                               WgPubkey(ServerPrivateKey), ip)
    IN  File([i \in 1..Len(f.lines) |->
                 IF f.lines[i].k = "Endpoint"
                 THEN Line("Endpoint", 1, ip, 0) ELSE f.lines[i]],
             FALSE)

RenderCall(op, name, ok, ip) == [op |-> op, name |-> name, ok |-> ok, ip |-> ip]

RenderInit ==
    /\ \E nl \in BOOLEAN, c \in {NoFile} \cup {InstalledClient(ip) : ip \in {6, 60}} :
          fs = [n \in Names |-> IF n = ServerName THEN File(InitialServerLines, nl)
                                ELSE IF n = "bob" THEN c
                                ELSE NoFile]
    /\ live = {}
    /\ nkeys = 1
    /\ last = RenderCall("none", "", TRUE, 0)
    /\ out = 0
    /\ sameDir = TRUE
    /\ prompts = {}
    /\ co = NoCoroutines

\* Outcomes of the external calls of create_client, the external address
\* of any kind
RenderEnvs ==
    CreateEnvs \cup {[ip |-> ip, keygen |-> TRUE, pubkey |-> TRUE] : ip \in RenderIps}

\* create_client with any external address
RenderCreate(name) ==
    \E env \in RenderEnvs :
        LET r == create_client(fs, name, nkeys + 1, env)
        IN  /\ r.ok => nkeys < MaxKeys
            /\ fs' = r.fs
            /\ nkeys' = IF r.ok THEN nkeys + 1 ELSE nkeys
            /\ last' = RenderCall("create", name, r.ok, env.ip)
            /\ UNCHANGED <<live, out, sameDir, prompts, co>>

\* get_client_config(name, ...): the enriched render
GetClientConfig(name) ==
    \E ext \in RenderIps :
        LET r == get_client_config(fs, name, ext)
        IN  /\ out' = r
            /\ last' = RenderCall("get_config", name, r.found, ext)
            /\ UNCHANGED <<fs, live, nkeys, sameDir, prompts, co>>

RenderNext ==
    \/ \E name \in Names : RenderCreate(name)
    \/ \E name \in Names : GetClientConfig(name)

SpecRender == RenderInit /\ [][RenderNext]_vars

---------------------------------------------------------------------------
(* C1: after any sequence of CreateClient and DeleteClient calls that      *)
(* starts from a server document without peers, no two declared peers      *)
(* carry the same host address, and no two client files do.                *)
C1_UniqueAddresses ==
    /\ \A i, j \in HostPositions(Server.lines) :
          Server.lines[i].v = Server.lines[j].v => i = j
    /\ \A a, b \in ClientFiles(fs) :
          ClientAddress(fs[a]) = ClientAddress(fs[b]) => a = b

\* Two clients exist side by side after an earlier peer was deleted.
C1_Witness ==
    /\ Cardinality(ClientFiles(fs)) = 2
    /\ Cardinality(HostPositions(Server.lines)) = 2
    /\ nkeys = 3
    /\ last.op = "create" /\ last.ok

(* C4: CreateClient(name) on a server document without peers declares a    *)
(* peer with AllowedIPs = <base>.<start host>/32; a DeleteClient(name)     *)
(* that follows and succeeds removes that peer section and <name>.conf; a  *)
(* further DeleteClient(name) returns not-found and changes nothing.       *)
C4_CreateThenDelete ==
    [][ /\ ( /\ last'.op = "create" /\ last'.ok
             /\ PeerHeaders(Server.lines) = {} )
           => /\ AllowedHosts(Server'.lines) = {VPN_CLIENT_START_IP}
              /\ DeclaredKeys(Server') = {last'.key}
              /\ Cardinality(PeerHeaders(Server'.lines)) = 1
        /\ ( /\ last.op = "create" /\ last.ok
             /\ last'.op = "delete" /\ last'.ok /\ last'.name = last.name )
           => /\ last'.key = last.key
              /\ last.key \notin DeclaredKeys(Server')
              /\ Cardinality(PeerHeaders(Server'.lines))
                    = Cardinality(PeerHeaders(Server.lines)) - 1
              /\ Cardinality(HostPositions(Server'.lines))
                    = Cardinality(HostPositions(Server.lines)) - 1
              /\ ~fs'[last.name].exists
        /\ ( /\ last.op = "delete" /\ last.ok
             /\ last'.op = "delete" /\ last'.name = last.name )
           => /\ ~last'.ok /\ last'.msg = "not_found"
              /\ fs' = fs /\ live' = live
      ]_vars

\* The third call of the scenario has answered: the only client ever
\* created is gone from the server document and from the directory.
C4_Witness ==
    /\ last.op = "delete" /\ last.msg = "not_found" /\ last.name = "alice"
    /\ nkeys = 1
    /\ Server.exists /\ PeerHeaders(Server.lines) = {}
    /\ ClientFiles(fs) = {}

(* C5: in every state reached by CreateClient and DeleteClient calls,      *)
(* failed ones included, every client file has exactly one peer section    *)
(* in the server document and every peer section exactly one client file.  *)
C5_OnePeerOneFile ==
    /\ \A n \in ClientFiles(fs) :
          Cardinality({i \in KeyPositions(Server.lines) :
                          Server.lines[i].v = ClientKey(fs[n])}) = 1
    /\ \A i \in KeyPositions(Server.lines) :
          Cardinality({n \in ClientFiles(fs) :
                          ClientKey(fs[n]) = Server.lines[i].v}) = 1

(* C6: CreateClient on a name whose file exists fails with the duplicate   *)
(* error and leaves every file, the server document included, as it was.   *)
C6_DuplicateRejected ==
    [][ \A n \in Names :
          ( last'.op = "create" /\ last'.name = n /\ fs[n].exists )
          => /\ ~last'.ok /\ last'.msg = "exists"
             /\ fs' = fs /\ live' = live
      ]_vars

\* A create was refused for a client that exists, next to its peer.
C6_Witness ==
    /\ last.op = "create" /\ last.msg = "exists" /\ last.name = "alice"
    /\ fs["alice"].exists
    /\ ClientKey(fs["alice"]) \in DeclaredKeys(Server)

(* C8: after ApplyChanges reports success, every declared public key is a  *)
(* live public key, however many declared peers were missing.              *)
C8_DeclaredSubsetOfLive ==
    (last.op = "apply" /\ last.ok /\ Server.exists)
        => DeclaredKeys(Server) \subseteq live

C3_NextIsMaxPlusOne ==
    last.op = "next_ip" =>
        LET hs == HostPositions(Server.lines)
        IN  /\ \A i \in hs : Server.lines[i].v < out
            /\ hs # {} => \E i \in hs : out = Server.lines[i].v + 1
            /\ hs = {} => out = VPN_CLIENT_START_IP
            /\ {Server.lines[i].v : i \in hs} = {2, 3, 5} => out = 6

\* The function was applied to a document declaring the hosts 2, 3 and 5.
C3_Witness ==
    /\ last.op = "next_ip"
    /\ {Server.lines[i].v : i \in HostPositions(Server.lines)} = {2, 3, 5}
    /\ out = 6

(* C7: a confirmed delete of a named client, with the apply step the       *)
(* delete command runs after it, removes that client's peer from the live  *)
(* interface: once it has succeeded the deleted public key is not live.    *)
C7_DeletedPeerNotLive ==
    ( /\ last.op = "button" /\ last.ok /\ last.msg = "deleted"
      /\ last.amsg \in {"no_peers", "already_applied", "applied", "already_exists"} )
        => last.key \notin live

(* C2: two concurrent CreateClient calls never interleave the read of the  *)
(* next address and the append of the peer: a call that has started        *)
(* create_client runs alone until it has finished it, so the calls         *)
(* allocate different addresses under every interleaving.                  *)
C2_CreatesSerialized ==
    /\ \A t \in Tasks :
          co.t[t].pc \in {"checked", "scanned", "appended", "written"}
             => /\ co.loop = t
                /\ \A u \in Tasks \ {t} : co.t[u].pc \in {"idle", "replied"}
    /\ \A i, j \in HostPositions(Server.lines) :
          Server.lines[i].v = Server.lines[j].v => i = j
    /\ \A t, u \in Tasks :
          (t # u /\ co.t[t].host # 0 /\ co.t[u].host # 0
             /\ co.t[t].pc # "checked" /\ co.t[u].pc # "checked")
          => co.t[t].host # co.t[u].host

\* Both calls are in flight: one has allocated and appended its address
\* while the other, started before, waits at its await; an earlier call
\* has already declared a peer.
C2_Witness ==
    /\ co.t[1].pc = "replied" /\ co.t[1].name = "alice"
    /\ co.t[2].pc = "appended" /\ co.t[2].name = "bob"
    /\ Cardinality(HostPositions(Server.lines)) = 2

(* C11: when the strategy tried first fails because the external tool is   *)
(* unavailable, ApplyChanges falls back to the next strategy and reports   *)
(* success.                                                                *)
C11_FallbackReportsSuccess ==
    (last.op = "apply" /\ last.cmds = 1 /\ last.set = "missing") => last.ok

\* The (applied, message) pairs the return statements of reload_wg_config
\* produce
ReturnedPairs ==
    {<<FALSE, "no_config">>, <<TRUE, "no_peers">>, <<FALSE, "no_public_key">>,
     <<TRUE, "already_applied">>, <<FALSE, "no_allowed_ips">>,
     <<TRUE, "applied">>, <<TRUE, "already_exists">>, <<FALSE, "set_error">>,
     <<FALSE, "wg_unavailable">>, <<FALSE, "exception">>}

(* C12: ApplyChanges always returns one (applied, message) pair and lets   *)
(* no exception out: a timeout or failure of the container lookup, of the  *)
(* status query or of set-peer ends in a returned pair, a failed attempt   *)
(* or a degraded path.                                                     *)
C12_AlwaysReturnsPair ==
    last.op = "apply" =>
        /\ <<last.ok, last.msg>> \in ReturnedPairs
        /\ (last.cmds = 1 /\ last.set \in {"timeout", "missing"}) => ~last.ok

\* Every external call of one apply timed out, and a pair came back.
C12_Witness ==
    /\ last.op = "apply"
    /\ last.container = "timeout" /\ last.show = "timeout" /\ last.set = "timeout"
    /\ last.cmds = 1 /\ ~last.ok /\ last.msg = "exception"

(* C20: a set-peer command that fails with an "already exists" error makes *)
(* ApplyChanges report success; any other non-zero exit is reported as a   *)
(* failure carrying the tool's error.                                      *)
C20_AlreadyExistsIsSuccess ==
    (last.op = "apply" /\ last.cmds = 1) =>
        /\ last.set = "exists" => (last.ok /\ last.msg = "already_exists")
        /\ last.set = "error" => (~last.ok /\ last.msg = "set_error")

\* A set-peer was refused with "already exists" and the apply succeeded.
C20_Witness ==
    /\ last.op = "apply" /\ last.cmds = 1 /\ last.set = "exists"
    /\ last.ok /\ last.key \in live

(* C13: a DeleteClient of a client whose public key no peer section of the *)
(* server document carries is not fatal: the call returns, the server      *)
(* document is left as it was, and the client file is removed.             *)
C13_AbsentPeerNotFatal ==
    [][ \A n \in Names \ {ServerName} :
          ( /\ last'.op = "delete" /\ last'.name = n
            /\ fs[n].exists /\ Server.exists
            /\ ClientKey(fs[n]) \notin DeclaredKeys(Server) )
          => /\ Server' = Server
             /\ ~fs'[n].exists
             /\ last'.msg \in {"deleted", "pubkey_error"}
             /\ last'.ok <=> last'.msg = "deleted"
      ]_vars

\* alice's file was deleted while the document declared other peers only.
C13_Witness ==
    /\ last.op = "delete" /\ last.ok /\ last.name = "alice"
    /\ last.key = WgPubkey(1)
    /\ last.before # {} /\ last.key \notin {q.key : q \in last.before}
    /\ PeerSet(Server) = last.before
    /\ ~fs["alice"].exists

(* C17: adding a peer that is not present and then removing it by its      *)
(* public key gives a document whose peers, with their preshared keys and  *)
(* AllowedIPs, are the peers of the original document.                     *)
C17_AddRemoveInverse ==
    [][ /\ (last'.op = "create" /\ last'.ok)
           => /\ last'.key \notin {q.key : q \in PeerSet(Server)}
              /\ \E q \in PeerSet(Server') :
                    /\ q.key = last'.key
                    /\ PeerSet(Server') = PeerSet(Server) \cup {q}
        /\ ( /\ last.op = "create" /\ last.ok
             /\ last'.op = "delete" /\ last'.ok /\ last'.name = last.name )
           => /\ last'.key = last.key
              /\ PeerSet(Server') = last.before
      ]_vars

\* A client was added to a document with two peers and removed again.
C17_Witness ==
    /\ last.op = "delete" /\ last.ok /\ last.key = WgPubkey(DocMaxPeers + 1)
    /\ Cardinality(last.before) = DocMaxPeers + 1
    /\ Cardinality(PeerSet(Server)) = DocMaxPeers

\* Line i of a text lies in a [Peer] section that carries the public key
InRemovedSection(lines, i, key) ==
    LET hs == {h \in 1..i : lines[h].k \in {"Peer", "Interface"}}
    IN  /\ hs # {}
        /\ lines[Max(hs)].k = "Peer"
        /\ \E j \in (Max(hs) + 1)..SectionEnd(lines, Max(hs)) :
              lines[j].k = "PublicKey" /\ lines[j].v = key

\* The text without the sections that carry the public key
RECURSIVE WithoutSections(_, _, _)
WithoutSections(lines, i, key) ==
    IF i > Len(lines) THEN <<>>
    ELSE (IF InRemovedSection(lines, i, key) THEN <<>> ELSE <<lines[i]>>)
         \o WithoutSections(lines, i + 1, key)

(* C18: removing a peer section removes its header line and the lines up   *)
(* to the next section header, and nothing else: the [Interface] section   *)
(* and the other [Peer] sections keep their lines, wherever they sit and   *)
(* whatever the order of the fields of the removed section.                *)
C18_RemovalTouchesOneSection ==
    [][ ( /\ last'.op = "delete" /\ last'.ok
          /\ Server.exists /\ last'.key \in DeclaredKeys(Server) )
        => /\ Server'.lines = WithoutSections(Server.lines, 1, last'.key)
           /\ last'.key \notin DeclaredKeys(Server')
           /\ Cardinality(PeerSet(Server')) = Cardinality(PeerSet(Server)) - 1
      ]_vars

\* Peer 1 was removed from a document that holds peer 2, its preshared key
\* first, ahead of the [Interface] section.
C18_Witness ==
    /\ last.op = "delete" /\ last.ok /\ last.key = WgPubkey(1)
    /\ Cardinality(last.before) = 2
    /\ Server.exists
    /\ Server.lines[1].k = "Peer"
    /\ Server.lines[2].k = "PresharedKey"
    /\ DeclaredKeys(Server) = {WgPubkey(2)}
    /\ \E i \in 1..Len(Server.lines) : Server.lines[i].k = "Interface"

(* C19: appending a peer section changes no line of the server document    *)
(* that was there and leaves exactly one blank line between the prior      *)
(* content and the new section, after any creates and deletes before it.   *)
C19_AppendOneBlankLine ==
    [][ (last'.op = "create" /\ last'.ok)
        => LET old == Server.lines
               new == Server'.lines
               h   == Len(new) - 3
           IN  /\ Len(new) >= Len(old)
               /\ SubSeq(new, 1, Len(old)) = old
               /\ h >= 3
               /\ new[h].k = "Peer"
               /\ new[h - 1] = Blank
               /\ new[h - 2] # Blank
      ]_vars

(* C16: after any sequence of successful CreateClient and DeleteClient     *)
(* calls, ListClients returns one entry per declared peer, and the entries *)
(* are exactly the clients that exist, each with the name it was created   *)
(* under and the address allocated to it.                                  *)
C16_ListIsExistingClients ==
    last.op = "list" =>
        /\ Len(out.entries) = Cardinality(PeerHeaders(Server.lines))
        /\ Len(out.entries) = Cardinality(ClientFiles(fs))
        /\ {out.entries[i] : i \in 1..Len(out.entries)}
              = {[name |-> n, address |-> ClientAddress(fs[n])] : n \in ClientFiles(fs)}

\* The Endpoint lines of a text
Endpoints(lines) == {lines[i] : i \in {j \in 1..Len(lines) : lines[j].k = "Endpoint"}}

\* A text carries obfuscation fields
HasObfuscation(lines) ==
    \E i \in 1..Len(lines) : lines[i].k \in {"Jc", "Obfuscation"}

(* C14: after any sequence of CreateClient and get-config calls every      *)
(* stored client file is the minimal rendering, without obfuscation        *)
(* fields, and a get-config call writes to no file.                        *)
C14_StoredFileIsMinimal ==
    [][ /\ \A n \in ClientFiles(fs') : ~HasObfuscation(fs'[n].lines)
        /\ last'.op = "get_config" => fs' = fs
      ]_vars

\* A client created by create_client was rendered with the obfuscation
\* fields while its file holds none.
C14_Witness ==
    /\ last.op = "get_config" /\ last.ok /\ last.name = "alice"
    /\ HasObfuscation(out.lines)
    /\ fs["alice"].exists /\ ~HasObfuscation(fs["alice"].lines)

(* C15: whenever the stored client text has an IPv6 Endpoint, in brackets  *)
(* or not, and an external IPv4 address is discoverable, the Endpoint of   *)
(* the rendered text is that IPv4 address with the original port.          *)
C15_EndpointBecomesIPv4 ==
    ( /\ last.op = "get_config" /\ last.ok /\ last.ip = 4
      /\ \E l \in Endpoints(fs[last.name].lines) : l.v \in {6, 60} )
    => \A l \in Endpoints(out.lines) : l.v = 4 /\ l.p = 0

---------------------------------------------------------------------------
(* SpecStored: get_client_config applied to any stored client text.  The   *)
(* file of a client is whatever text is in <name>.conf: the function reads *)
(* it and tests it with 'Jc =' in config_content and find('[Peer]').       *)

StoredMaxLen == 3

\* The lines a stored text is made of: a "Jc" record is a line holding the
\* text 'Jc =', an "Obfuscation" record the lines Jmin .. H4
StoredLines ==
    { Hdr("Interface"), Hdr("Peer"), Other, Line("Jc", 0, 0, 0),
      Line("Obfuscation", 0, 0, 0) }

RECURSIVE StoredTexts(_)
StoredTexts(n) ==
    IF n = 0 THEN { <<>> }
    ELSE LET shorter == StoredTexts(n - 1)
         IN  shorter \cup { Append(t, l) : t \in shorter, l \in StoredLines }

StoredClient == "alice"

StoredInit ==
    /\ \E t \in StoredTexts(StoredMaxLen) :
          fs = [n \in Names |-> IF n = StoredClient THEN File(t, FALSE) ELSE NoFile]
    /\ live = {}
    /\ nkeys = 0
    /\ last = RenderCall("none", "", TRUE, 0)
    /\ out = RenderResult(FALSE, <<>>)
    /\ sameDir = TRUE
    /\ prompts = {}
    /\ co = NoCoroutines

\* get_client_config(name, ...) on the stored text
StoredRender ==
    \E ext \in RenderIps :
        LET r == get_client_config(fs, StoredClient, ext)
        IN  /\ out' = r
            /\ last' = RenderCall("get_config", StoredClient, r.found, ext)
            /\ UNCHANGED <<fs, live, nkeys, sameDir, prompts, co>>

StoredNext == StoredRender

SpecStored == StoredInit /\ [][StoredNext]_vars

\* The positions of the lines of one kind in a text
LinesOfKind(lines, kind) == {i \in 1..Len(lines) : lines[i].k = kind}

\* Each obfuscation field occurs at most once in a text, before its [Peer]
FieldsOnceBeforePeer(lines) ==
    \A kind \in {"Jc", "Obfuscation"} :
        /\ Cardinality(LinesOfKind(lines, kind)) <= 1
        /\ \A i \in LinesOfKind(lines, kind) :
              \A h \in LinesOfKind(lines, "Peer") : i < h

(* C21: for any stored client text that holds each obfuscation field (the  *)
(* Jc line, the lines Jmin .. H4) at most once and before its [Peer], the  *)
(* rendered text holds each field at most once and before the [Peer]       *)
(* block, and a stored text that already holds obfuscation fields is       *)
(* rendered with nothing added.                                            *)
C21_RenderKeepsFieldsOnce ==
    ( /\ last.op = "get_config" /\ out.found
      /\ FieldsOnceBeforePeer(fs[last.name].lines) )
    => /\ FieldsOnceBeforePeer(out.lines)
       /\ HasObfuscation(fs[last.name].lines)
             => Len(out.lines) = Len(fs[last.name].lines)

---------------------------------------------------------------------------
(* SpecOctet: the operations of Spec on a server late in its life.  After  *)
(* 252 or 253 clients were created from VPN_CLIENT_START_IP on, and all    *)
(* but the last were deleted again, the document holds one peer with the   *)
(* host octet 253 or 254.                                                  *)

\* The last host address of the base prefix, which is a /24 (base_ip is the
\* first three octets of the server address): .255 is its broadcast address
LastHostAddress == 254

HighHosts == {LastHostAddress - 1, LastHostAddress}

OctetClient == "bob"

OctetInit ==
    /\ \E h \in HighHosts, nl \in BOOLEAN :
          fs = [n \in Names |->
                  IF n = ServerName
                  THEN AppendPeer(File(InitialServerLines, nl),
                                  WgPubkey(1), WgGenpsk(1), h)
                  ELSE IF n = OctetClient
                  THEN ClientConfigBasic(1, WgGenpsk(1), h,
                                         WgPubkey(ServerPrivateKey), 4)
                  ELSE NoFile]
    /\ live \in {{}, {WgPubkey(1)}}
    /\ nkeys = 1
    /\ last = Call("none", "", TRUE, "", NoKey, 0, TRUE)
    /\ out = 0
    /\ sameDir = TRUE
    /\ prompts = {}
    /\ co = NoCoroutines

OctetNext == Next

SpecOctet == OctetInit /\ [][OctetNext]_vars

(* C22: every peer section CreateClient has declared has exactly one /32   *)
(* AllowedIPs inside the base prefix, and its host octet is a valid host   *)
(* address: it never exceeds 254, however many clients were created.       *)
C22_HostOctetValid ==
    (last.op = "create" /\ last.ok) =>
        /\ Cardinality(HostPositions(Server.lines))
              = Cardinality(PeerHeaders(Server.lines))
        /\ \A i \in HostPositions(Server.lines) :
              Server.lines[i].v <= LastHostAddress

---------------------------------------------------------------------------
(* SpecHandlers: every handler main() registers, the read-only ones        *)
(* included.  help_handler is start_handler.                               *)

\* Clients the handlers of SpecHandlers create
HandlerMaxKeys == 2

\* The files seen under DOCKER_COMPOSE_DIR (see ComposePathExists)
ComposeDir(fsys) == IF sameDir THEN fsys ELSE [n \in DOMAIN fsys |-> NoFile]

\* add_client_handler, for the clients SpecHandlers has room for
HandlerAdd(user, name) ==
    /\ AddClientHandler(user, name)
    /\ nkeys' <= HandlerMaxKeys

\* get_config_handler: /get_config <name> reads
\* get_client_config(client_name, DOCKER_COMPOSE_DIR) and sends the text
GetConfigHandler(user, name) ==
    IF ~is_admin(user) THEN Refuse("get_config", user, name, "refused")
    ELSE \E ext \in ExternalIps :
            LET r == get_client_config(ComposeDir(fs), name, ext)
            IN  IF ~r.found \/ r.lines = <<>>
                THEN Refuse("get_config", user, name, "not_found")
                ELSE /\ last' = BotCall("get_config", user, name, TRUE, "sent",
                                        NoKey, "")
                     /\ UNCHANGED <<fs, live, nkeys, out, sameDir, prompts, co>>

\* list_clients_handler: /list_clients sends list_clients(VPN_CONFIG_DIR, ...)
ListClientsHandler(user) ==
    IF ~is_admin(user) THEN Refuse("list_clients", user, "", "refused")
    ELSE /\ last' = BotCall("list_clients", user, "", TRUE, "listed", NoKey, "")
         /\ UNCHANGED <<fs, live, nkeys, out, sameDir, prompts, co>>

\* status_handler: /status sends get_server_status(...), which runs
\* `docker ps` and `wg show` and writes nothing
StatusHandler(user) ==
    IF ~is_admin(user) THEN Refuse("status", user, "", "refused")
    ELSE /\ last' = BotCall("status", user, "", TRUE, "status", NoKey, "")
         /\ UNCHANGED <<fs, live, nkeys, out, sameDir, prompts, co>>

\* start_handler and help_handler: /start, /help send the command list
StartHandler(user) ==
    IF ~is_admin(user) THEN Refuse("start", user, "", "refused")
    ELSE /\ last' = BotCall("start", user, "", TRUE, "welcome", NoKey, "")
         /\ UNCHANGED <<fs, live, nkeys, out, sameDir, prompts, co>>

HandlersNext ==
    \/ \E user \in Users, name \in Names : HandlerAdd(user, name)
    \/ \E user \in Users, name \in Names : DeleteClientHandler(user, name)
    \/ \E user \in Users, data \in prompts : ButtonHandler(user, data)
    \/ \E user \in Users, data \in prompts : ButtonCancel(user, data)
    \/ \E user \in Users : RestartHandler(user)
    \/ \E user \in Users, name \in Names : GetConfigHandler(user, name)
    \/ \E user \in Users : ListClientsHandler(user)
    \/ \E user \in Users : StatusHandler(user)
    \/ \E user \in Users : StartHandler(user)

SpecHandlers == BotInit /\ [][HandlersNext]_vars

(* C23: no command or button press of a user outside the administrator    *)
(* allow-list changes any state: whatever the handler, the caller is       *)
(* refused and the server document, the client files and the live          *)
(* interface are as they were.                                             *)
C23_NonAdminChangesNothing ==
    [][ ~(last'.user \in ADMIN_IDS)
          => /\ fs' = fs
             /\ live' = live
             /\ ~last'.ok /\ last'.msg = "refused"
      ]_vars

\* A user outside the allow-list pressed the confirmation button for an
\* existing client whose peer is live, and was refused.
C23_Witness ==
    /\ last.op = "button" /\ last.user \notin ADMIN_IDS /\ last.msg = "refused"
    /\ last.name \in ClientFiles(fs)
    /\ ClientKey(fs[last.name]) \in live

---------------------------------------------------------------------------
(* SpecConfirm: the handlers that create and delete, for client names that *)
(* hold the text of the callback prefix.  Both names pass the check        *)
(* ^[a-zA-Z0-9_-]+$ of add_client_handler.                                 *)

ConfirmNames == {"ab", "adelete_yes_b"}

ConfirmInit ==
    /\ \E nl \in BOOLEAN :
          fs = [n \in ConfirmNames \cup {ServerName} |->
                  IF n = ServerName THEN File(InitialServerLines, nl) ELSE NoFile]
    /\ live = {}
    /\ nkeys = 0
    /\ last = BotCall("none", 0, "", TRUE, "", NoKey, "")
    /\ out = 0
    /\ sameDir = TRUE
    /\ prompts = {}
    /\ co = NoCoroutines

ConfirmNext ==
    \/ \E user \in Users, name \in ConfirmNames : AddClientHandler(user, name)
    \/ \E user \in Users, name \in ConfirmNames : DeleteClientHandler(user, name)
    \/ \E user \in Users, data \in prompts : ButtonHandler(user, data)
    \/ \E user \in Users, data \in prompts : ButtonCancel(user, data)
    \/ \E user \in Users : RestartHandler(user)

SpecConfirm == ConfirmInit /\ [][ConfirmNext]_vars

(* C24: deletion is two-step and exact.  A client file goes away only in   *)
(* the step of a pressed confirmation button, and the client deleted is    *)
(* the one client named in the /delete_client prompt the button belongs    *)
(* to, for every name the create command accepts.                          *)
C24_DeletesPromptedClient ==
    [][ \A m \in ConfirmNames :
          (fs[m].exists /\ ~fs'[m].exists)
              => /\ last'.op = "button"
                 /\ DeleteYes(m) \in prompts \ prompts'
      ]_vars

(* C25: no CreateClient or DeleteClient call, for any client name, deletes *)
(* the server configuration file or replaces it by a client                *)
(* configuration: a server file that existed before a call exists after    *)
(* it, with its [Interface] section as it was.                             *)
C25_ServerFileKept ==
    [][ (Server.exists /\ last'.op \in {"create", "delete"})
          => /\ fs'[ServerName].exists
             /\ InterfacePrivateKey(fs'[ServerName].lines)
                   = InterfacePrivateKey(Server.lines)
      ]_vars

(* C26: the handlers agree on where client files live.  Once /add_client   *)
(* has created a client, an administrator's /get_config for that name      *)
(* finds and sends its configuration and /delete_client for it offers the  *)
(* confirmation, whatever VPN_CONFIG_DIR and DOCKER_COMPOSE_DIR are.       *)
C26_HandlersFindCreatedClient ==
    [][ ( /\ last'.op \in {"get_config", "delete_client"}
          /\ last'.user \in ADMIN_IDS
          /\ last'.name \in ClientFiles(fs) )
        => /\ last'.ok
           /\ last'.msg \in {"sent", "confirm"}
      ]_vars

====
